---- MODULE Spec2Model ----
(***************************************************************************)
(* Employee-Status-Tracker: the status-submission form (StatusUpdate       *)
(* component), the status record store behind /api/status, the pure        *)
(* predicates canEdit / validateDate, and the report export handler        *)
(* GET /api/reports/excel.                                                 *)
(*                                                                         *)
(* Dates are day numbers (a 'YYYY-MM-DD' string is the day it names),      *)
(* instants are hours since day 0 at 00:00 UTC.  toISOString().split('T')  *)
(* [0] of an instant is its UTC day; new Date('YYYY-MM-DD') is that day at *)
(* 00:00 UTC.                                                              *)
(***************************************************************************)
EXTENDS Integers, Sequences, FiniteSets, TLC

(* ----------------------------- bounds ---------------------------------- *)
\* handleSubmit calls per behaviour
MaxSubmits == 2
\* user edits (answers, leave toggle, leave reason, date) per behaviour
MaxEdits == 2

(* ----------------------------- domains --------------------------------- *)
Null == [null |-> TRUE]
Undefined == "undefined"

\* browser tabs showing the status form
Clients == {"tabA", "tabB"}

UserIds == {"u1", "u2", "u3", "u4", "u5"}

\* the user directory: two employees share the name "Sam"
UserDir ==
  [u1 |-> [id |-> "u1", name |-> "Sam", role |-> "employee"],
   u2 |-> [id |-> "u2", name |-> "Sam", role |-> "employee"],
   u3 |-> [id |-> "u3", name |-> "Max", role |-> "manager"],
   u4 |-> [id |-> "u4", name |-> "Ann", role |-> "admin"],
   u5 |-> [id |-> "u5", name |-> "Eve", role |-> "manager"]]

TeamIds == {"t1"}

\* the UTC day the behaviours are played on
Today == 5
Dates == (Today - 3)..(Today + 1)

\* time zones: off = offset from UTC now (hours), offAgo = the offset that was
\* in force two local calendar days ago (differs across a DST change)
UTC == [name |-> "UTC", off |-> 0, offAgo |-> 0]
Dhaka == [name |-> "Asia/Dhaka", off |-> 6, offAgo |-> 6]
LondonAfterFallBack == [name |-> "Europe/London", off |-> 0, offAgo |-> 1]

\* the clocks a run is played on: the instant (hours since day 0, 00:00 UTC)
\* and the browser's zone
Clocks ==
  {[now |-> Today * 24 + 12, zone |-> UTC],
   [now |-> Today * 24 + 20, zone |-> Dhaka],
   [now |-> Today * 24, zone |-> LondonAfterFallBack]}

\* the zones a server process runs in: the offset from UTC is before (hours)
\* up to the instant change and after from then on
ServerUTC == [name |-> "UTC", before |-> 0, after |-> 0, change |-> 0]
\* Europe/London on the night the clocks go back, 01:00 UTC of day Today - 1
ServerLondon ==
  [name |-> "Europe/London", before |-> 1, after |-> 0,
   change |-> (Today - 1) * 24 + 1]
ServerZones == {ServerUTC, ServerLondon}

\* the sessions of the two tabs: the same account twice, or two accounts
Sessions ==
  {[tabA |-> "u1", tabB |-> "u1"], [tabA |-> "u1", tabB |-> "u2"]}

\* answer texts: empty, whitespace only, real text
Answers == {"", " ", "ok"}

\* String.prototype.trim
Trim(s) == IF s = " " THEN "" ELSE s

\* GET /api/questions as the form receives it
realQuestions == <<"q1", "q2">>

\* the Question collection: q1 was created first with display order 2; q2
\* and q3 came later with display order 1; q2 is scoped to team tA and q3 to
\* team tB
QuestionColl ==
  <<[id |-> "q1", text |-> "Done?", isCommon |-> TRUE, teams |-> {},
     order |-> 2, active |-> TRUE, createdBy |-> "u4"],
    [id |-> "q2", text |-> "Blockers?", isCommon |-> FALSE, teams |-> {"tA"},
     order |-> 1, active |-> TRUE, createdBy |-> "u3"],
    [id |-> "q3", text |-> "Risks?", isCommon |-> FALSE, teams |-> {"tB"},
     order |-> 1, active |-> TRUE, createdBy |-> "u4"]>>

\* the collection after q3 was deleted and q2 was deactivated
QuestionCollNoRisks ==
  <<QuestionColl[1], [QuestionColl[2] EXCEPT !.active = FALSE]>>

\* the collection with the question of team tB alone
QuestionCollRisksOnly == <<QuestionColl[3]>>

QuestionColls == {QuestionColl, QuestionCollNoRisks, QuestionCollRisksOnly}

\* the orders an unsorted find can return its documents in
FindOrders == {"natural", "reverse"}

\* the connections question requests arrive on
Connections == {"k1", "k2"}

\* a connection without a request
Idle == [pc |-> "idle"]

(* ------------------------------ state ---------------------------------- *)
VARIABLES
  now,             \* the clock of the run
  zone,            \* the browser's time zone
  store,           \* the StatusRecord collection
  nextId,          \* next fresh record identity
  writes,          \* the store's logical clock: upserts done so far
  token,           \* localStorage token present, per client
  login,           \* the account behind the token, per client
  teamId,          \* useParams().teamId, per client
  loading,
  currentUser,
  questions,
  responses,
  previousStatus,
  selectedDate,
  isLeave,
  leaveReason,
  isEditMode,
  error,
  pc,              \* position of handleSubmit: idle / posting / posted
  request,         \* statusData in flight (axios.post), per client
  checks,          \* the checks the running handleSubmit has passed
  submits,
  edits,
  ceUser,          \* canEdit under test: the current user
  ceStatus,        \* canEdit under test: the previous status
  ceResult,        \* canEdit under test: what it returned
  cePc,            \* canEdit under test: "call" before, "done" after
  serverZone,      \* the time zone the server process runs in
  findOrder,       \* the order the database returns unsorted finds in
  questionColl,    \* the Question collection, in insertion order
  teamsQuestions,  \* Team.questions: the question ids listed on each team
  qreq,            \* the question requests in flight, per connection
  listReq,         \* the last GET /api/questions request
  listRes,         \* and the questions it returned
  exportPage,      \* the StatusExport page while it loads its dropdowns
  reportReq,       \* the last GET /api/reports/excel request
  reportRes        \* and the response it got, with the handler's locals

questionVars == <<questionColl, teamsQuestions, qreq, listReq, listRes>>

auxVars == <<ceUser, ceStatus, ceResult, cePc, serverZone, findOrder,
             questionVars, exportPage, reportReq, reportRes>>

formVars == <<now, zone, store, nextId, writes, token, login, teamId, loading,
              currentUser, questions, responses, previousStatus, selectedDate,
              isLeave, leaveReason, isEditMode, error, pc, request, checks,
              submits, edits>>

(* ----------------------- sequence helpers ------------------------------ *)
RECURSIVE SeqMap(_, _)
SeqMap(F(_), s) ==
  IF s = <<>> THEN <<>> ELSE <<F(Head(s))>> \o SeqMap(F, Tail(s))

RECURSIVE SeqFilter(_, _)
SeqFilter(P(_), s) ==
  IF s = <<>> THEN <<>>
  ELSE (IF P(Head(s)) THEN <<Head(s)>> ELSE <<>>) \o SeqFilter(P, Tail(s))

Range(s) == {s[i] : i \in 1..Len(s)}

\* Team.questions as the question routes keep it: the questions scoped to
\* the team
teamsQuestionsOf(coll) ==
  [t \in {"tA", "tB", "tC"} |-> {qn.id : qn \in {x \in Range(coll) : t \in x.teams}}]

\* no question request has been made
QuestionsIdle ==
  /\ questionColl = QuestionColl
  /\ teamsQuestions = teamsQuestionsOf(QuestionColl)
  /\ qreq = [r \in Connections |-> Idle]
  /\ listReq = Null
  /\ listRes = Null

(* ------------------------- date restrictions --------------------------- *)
\* Date.prototype.toISOString().split('T')[0]
IsoDay(instant) == instant \div 24

\* twoDaysAgo.setDate(today.getDate() - 2): same local wall-clock time two
\* local calendar days earlier
twoDaysAgo == now + zone.off - 48 - zone.offAgo

minDate == IsoDay(twoDaysAgo)
maxDate == IsoDay(now)

validateDate(date) == date * 24 >= minDate * 24 /\ date * 24 <= maxDate * 24

(* --------------------------- edit eligibility -------------------------- *)
hasExistingDataOf(ps) == ps # Null

\* canEdit that looks at the current user before the record
canEditUserFirst(cu, ps) ==
  IF cu = Null THEN FALSE
  ELSE IF ~hasExistingDataOf(ps) THEN TRUE
  ELSE LET isOwnStatus ==
             /\ ps.updatedBy # Null
             /\ \/ cu.id = ps.updatedBy.id
                \/ cu.name = ps.updatedBy.name
       IN  isOwnStatus \/ cu.role = "manager" \/ cu.role = "admin"

canEditOf(cu, ps) ==
  IF ~hasExistingDataOf(ps) THEN TRUE
  ELSE IF cu = Null \/ ps = Null THEN FALSE
  ELSE LET isOwnStatus ==
             /\ ps.updatedBy # Null
             /\ \/ cu.id = ps.updatedBy.id
                \/ cu.name = ps.updatedBy.name
       IN  isOwnStatus \/ cu.role = "manager" \/ cu.role = "admin"

hasExistingData(c) == hasExistingDataOf(previousStatus[c])

canEdit(c) == canEditOf(currentUser[c], previousStatus[c])

\* isFormDisabled that ignores edit mode
isFormDisabledIgnoresEdit(c) == hasExistingData(c)

isFormDisabled(c) == hasExistingData(c) /\ ~isEditMode[c]

(* --------------------------- the record store -------------------------- *)
\* the key of a record is (user, team, calendar day)
OnDay(r, user, team, day) ==
  r.user = user /\ r.team = team /\ IsoDay(r.date) = day

\* a store that always inserts
upsertAlwaysInsert(st, nid, at, actor, data) ==
  st \cup {[id |-> nid, user |-> data.user, team |-> data.team,
            date |-> data.date, isLeave |-> data.isLeave,
            leaveReason |-> data.leaveReason,
            responses |-> data.responses, updatedBy |-> actor,
            submittedAt |-> at]}

\* a read-then-write store: the handler looks the key up when the request
\* arrives and writes when it is served, inserting if the lookup found nothing
upsertReadThenWrite(st, nid, at, actor, data) ==
  LET hit(r) == OnDay(r, data.user, data.team, IsoDay(data.date))
      sawNone == \A r \in st : hit(r) => r.submittedAt >= at - 1
  IN
  IF (\E r \in st : hit(r)) /\ ~sawNone
  THEN {IF hit(r)
        THEN [r EXCEPT !.isLeave = data.isLeave,
                       !.leaveReason = data.leaveReason,
                       !.responses = data.responses,
                       !.updatedBy = actor,
                       !.submittedAt = at]
        ELSE r : r \in st}
  ELSE st \cup {[id |-> nid, user |-> data.user, team |-> data.team,
                 date |-> data.date, isLeave |-> data.isLeave,
                 leaveReason |-> data.leaveReason,
                 responses |-> data.responses, updatedBy |-> actor,
                 submittedAt |-> at]}

\* upsert(team, user, date, payload) by actor at store time at: find by
\* (user, team, date); overwrite in place when present, else create with a
\* fresh identity
upsert(st, nid, at, actor, data) ==
  LET hit(r) == OnDay(r, data.user, data.team, IsoDay(data.date)) IN
  IF \E r \in st : hit(r)
  THEN {IF hit(r)
        THEN [r EXCEPT !.isLeave = data.isLeave,
                       !.leaveReason = data.leaveReason,
                       !.responses = data.responses,
                       !.updatedBy = actor,
                       !.submittedAt = at]
        ELSE r : r \in st}
  ELSE st \cup {[id |-> nid, user |-> data.user, team |-> data.team,
                 date |-> data.date, isLeave |-> data.isLeave,
                 leaveReason |-> data.leaveReason,
                 responses |-> data.responses, updatedBy |-> actor,
                 submittedAt |-> at]}

\* find({user, team, date}) with updatedBy populated
populate(r) ==
  [r EXCEPT !.updatedBy = [id |-> r.updatedBy, name |-> UserDir[r.updatedBy].name]]

find(st, user, team, day) ==
  {populate(r) : r \in {x \in st : OnDay(x, user, team, day)}}

(* ------------------------------ the form ------------------------------- *)
blankResponses(qs) ==
  LET blank(q) == [question |-> q, answer |-> ""] IN SeqMap(blank, qs)

FormInit ==
  /\ \E k \in Clocks : now = k.now /\ zone = k.zone
  /\ store = {}
  /\ nextId = 1
  /\ writes = 0
  /\ token \in {[c \in Clients |-> TRUE], [c \in Clients |-> c = "tabA"]}
  /\ login \in Sessions
  /\ teamId \in [Clients -> TeamIds]
  /\ loading = [c \in Clients |-> TRUE]
  /\ currentUser = [c \in Clients |-> Null]
  /\ questions = [c \in Clients |-> <<>>]
  /\ responses = [c \in Clients |-> <<>>]
  /\ previousStatus = [c \in Clients |-> Null]
  /\ selectedDate = [c \in Clients |-> IsoDay(now)]
  /\ isLeave = [c \in Clients |-> FALSE]
  /\ leaveReason = [c \in Clients |-> ""]
  /\ isEditMode = [c \in Clients |-> FALSE]
  /\ error = [c \in Clients |-> ""]
  /\ pc = [c \in Clients |-> "idle"]
  /\ request = [c \in Clients |-> Null]
  /\ checks = [c \in Clients |-> <<>>]
  /\ submits = 0
  /\ edits = 0

\* the state fetchStatusForDate leaves behind; qs is the `questions` of the
\* closure that calls it, cur the current values, ok whether the GET succeeded
fetchStatusForDate(c, date, user, qs, ok, cur) ==
  LET statusRes == find(store, user.id, teamId[c], date) IN
  IF ~ok
  THEN [cur EXCEPT !.previousStatus = Null, !.isEditMode = FALSE]
  ELSE IF statusRes # {}
  THEN LET status == CHOOSE s \in statusRes : TRUE
           existing(r) == [question |-> r.question, answer |-> r.answer]
       IN  IF status.isLeave
           THEN [previousStatus |-> status, isEditMode |-> FALSE,
                 isLeave |-> TRUE, leaveReason |-> status.leaveReason,
                 responses |-> blankResponses(qs)]
           ELSE [previousStatus |-> status, isEditMode |-> FALSE,
                 isLeave |-> FALSE, leaveReason |-> "",
                 responses |-> SeqMap(existing, status.responses)]
  ELSE [previousStatus |-> Null, isEditMode |-> FALSE, isLeave |-> FALSE,
        leaveReason |-> "", responses |-> blankResponses(qs)]

formFields(c) ==
  [previousStatus |-> previousStatus[c], isEditMode |-> isEditMode[c],
   isLeave |-> isLeave[c], leaveReason |-> leaveReason[c],
   responses |-> responses[c]]

setFormFields(c, f) ==
  /\ previousStatus' = [previousStatus EXCEPT ![c] = f.previousStatus]
  /\ isEditMode' = [isEditMode EXCEPT ![c] = f.isEditMode]
  /\ isLeave' = [isLeave EXCEPT ![c] = f.isLeave]
  /\ leaveReason' = [leaveReason EXCEPT ![c] = f.leaveReason]
  /\ responses' = [responses EXCEPT ![c] = f.responses]

formFieldVars == <<previousStatus, isEditMode, isLeave, leaveReason, responses>>

envVars == <<now, zone, token, login, teamId>>

\* useEffect / fetchData: the mount-time load.  Its fetchStatusForDate is the
\* closure of the first render, whose `questions` is still []
fetchData(c) ==
  /\ loading[c]
  /\ loading' = [loading EXCEPT ![c] = FALSE]
  /\ IF ~token[c]
     THEN /\ error' = [error EXCEPT ![c] = "No authentication token found"]
          /\ UNCHANGED <<currentUser, questions, formFieldVars>>
     ELSE \E authOk \in BOOLEAN, ok \in BOOLEAN :
            IF ~authOk
            THEN /\ error' = [error EXCEPT ![c] = "Failed to fetch data"]
                 /\ UNCHANGED <<currentUser, questions, formFieldVars>>
            ELSE LET user == UserDir[login[c]]
                     cur == [formFields(c) EXCEPT
                               !.responses = blankResponses(realQuestions)]
                 IN  /\ currentUser' = [currentUser EXCEPT ![c] = user]
                     /\ questions' = [questions EXCEPT ![c] = realQuestions]
                     /\ setFormFields(c,
                          fetchStatusForDate(c, selectedDate[c], user, <<>>, ok, cur))
                     /\ UNCHANGED error
  /\ UNCHANGED <<auxVars, envVars, store, nextId, writes, selectedDate, pc, request, checks,
                 submits, edits>>

handleDateChange(c, date) ==
  /\ ~loading[c]
  /\ edits < MaxEdits
  /\ edits' = edits + 1
  /\ selectedDate' = [selectedDate EXCEPT ![c] = date]
  /\ error' = [error EXCEPT ![c] = ""]
  /\ IF currentUser[c] # Null /\ token[c]
     THEN \E ok \in BOOLEAN :
            setFormFields(c,
              fetchStatusForDate(c, date, currentUser[c], questions[c], ok,
                                 [formFields(c) EXCEPT !.isEditMode = FALSE]))
     ELSE setFormFields(c, [formFields(c) EXCEPT !.isEditMode = FALSE])
  /\ UNCHANGED <<auxVars, envVars, store, nextId, writes, loading, currentUser, questions, pc,
                 request, checks, submits>>

handleEditToggle(c) ==
  /\ ~loading[c]
  /\ edits < MaxEdits
  /\ edits' = edits + 1
  /\ isEditMode' = [isEditMode EXCEPT ![c] = ~isEditMode[c]]
  /\ UNCHANGED <<auxVars, envVars, store, nextId, writes, loading, currentUser, questions,
                 responses, previousStatus, selectedDate, isLeave, leaveReason,
                 error, pc, request, checks, submits>>

handleResponseChange(c, questionId, answer) ==
  /\ ~loading[c]
  /\ edits < MaxEdits
  /\ edits' = edits + 1
  /\ IF isFormDisabled(c)
     THEN UNCHANGED responses
     ELSE LET set(r) == IF r.question = questionId
                        THEN [r EXCEPT !.answer = answer] ELSE r
          IN  responses' = [responses EXCEPT ![c] = SeqMap(set, responses[c])]
  /\ UNCHANGED <<auxVars, envVars, store, nextId, writes, loading, currentUser, questions,
                 previousStatus, selectedDate, isLeave, leaveReason, isEditMode,
                 error, pc, request, checks, submits>>

handleLeaveToggle(c) ==
  /\ ~loading[c]
  /\ edits < MaxEdits
  /\ edits' = edits + 1
  /\ IF isFormDisabled(c)
     THEN UNCHANGED <<isLeave, responses, leaveReason>>
     ELSE /\ isLeave' = [isLeave EXCEPT ![c] = ~isLeave[c]]
          /\ IF ~isLeave[c]
             THEN /\ responses' = [responses EXCEPT
                                     ![c] = blankResponses(questions[c])]
                  /\ UNCHANGED leaveReason
             ELSE /\ leaveReason' = [leaveReason EXCEPT ![c] = ""]
                  /\ UNCHANGED responses
  /\ UNCHANGED <<auxVars, envVars, store, nextId, writes, loading, currentUser, questions,
                 previousStatus, selectedDate, isEditMode, error, pc, request,
                 checks, submits>>

handleLeaveReasonChange(c, value) ==
  /\ ~loading[c]
  /\ edits < MaxEdits
  /\ edits' = edits + 1
  /\ IF isFormDisabled(c)
     THEN UNCHANGED leaveReason
     ELSE leaveReason' = [leaveReason EXCEPT ![c] = value]
  /\ UNCHANGED <<auxVars, envVars, store, nextId, writes, loading, currentUser, questions,
                 responses, previousStatus, selectedDate, isLeave, isEditMode,
                 error, pc, request, checks, submits>>

\* handleSubmit that tests the texts without trimming them
submitResultNoTrim(c) ==
  LET fail(msg, passed) == [err |-> msg, data |-> Null, checks |-> passed]
      nonBlank(r) == r.answer # ""
      validResponses == SeqFilter(nonBlank, responses[c])
  IN
  IF ~token[c] THEN fail("No authentication token found", <<>>)
  ELSE IF currentUser[c] = Null
    THEN fail("Missing user or team information", <<>>)
  ELSE IF ~validateDate(selectedDate[c])
    THEN fail("You can only add status for today or the last two days", <<>>)
  ELSE IF isLeave[c]
    THEN IF leaveReason[c] = ""
         THEN fail("Please provide a reason for leave", <<"validateDate">>)
         ELSE [err |-> "",
               data |-> [team |-> teamId[c], user |-> currentUser[c].id,
                         date |-> selectedDate[c] * 24, isLeave |-> TRUE,
                         leaveReason |-> Trim(leaveReason[c]),
                         responses |-> <<>>],
               checks |-> <<"validateDate", "payload">>]
  ELSE IF Len(validResponses) = 0
    THEN fail("Please provide at least one response", <<"validateDate">>)
  ELSE [err |-> "",
        data |-> [team |-> teamId[c], user |-> currentUser[c].id,
                  date |-> selectedDate[c] * 24, isLeave |-> FALSE,
                  leaveReason |-> "", responses |-> validResponses],
        checks |-> <<"validateDate", "payload">>]

\* handleSubmit up to axios.post: the error it throws, or the statusData it
\* posts; checks lists the checks passed on the way
submitResult(c) ==
  LET fail(msg, passed) == [err |-> msg, data |-> Null, checks |-> passed]
      nonBlank(r) == Trim(r.answer) # ""
      validResponses == SeqFilter(nonBlank, responses[c])
  IN
  IF ~token[c] THEN fail("No authentication token found", <<>>)
  ELSE IF currentUser[c] = Null
    THEN fail("Missing user or team information", <<>>)
  ELSE IF ~validateDate(selectedDate[c])
    THEN fail("You can only add status for today or the last two days", <<>>)
  ELSE IF isLeave[c]
    THEN IF Trim(leaveReason[c]) = ""
         THEN fail("Please provide a reason for leave", <<"validateDate">>)
         ELSE [err |-> "",
               data |-> [team |-> teamId[c], user |-> currentUser[c].id,
                         date |-> selectedDate[c] * 24, isLeave |-> TRUE,
                         leaveReason |-> Trim(leaveReason[c]),
                         responses |-> <<>>],
               checks |-> <<"validateDate", "payload">>]
  ELSE IF Len(validResponses) = 0
    THEN fail("Please provide at least one response", <<"validateDate">>)
  ELSE [err |-> "",
        data |-> [team |-> teamId[c], user |-> currentUser[c].id,
                  date |-> selectedDate[c] * 24, isLeave |-> FALSE,
                  leaveReason |-> "", responses |-> validResponses],
        checks |-> <<"validateDate", "payload">>]

\* the submit button is rendered iff !hasExistingData() || isEditMode and is
\* disabled while saving
handleSubmit(c) ==
  /\ ~loading[c]
  /\ pc[c] = "idle"
  /\ ~hasExistingData(c) \/ isEditMode[c]
  /\ submits < MaxSubmits
  /\ submits' = submits + 1
  /\ LET r == submitResult(c) IN
       /\ error' = [error EXCEPT ![c] = r.err]
       /\ checks' = [checks EXCEPT ![c] = r.checks]
       /\ request' = [request EXCEPT ![c] = r.data]
       /\ pc' = [pc EXCEPT ![c] = IF r.data = Null THEN "idle" ELSE "posting"]
  /\ UNCHANGED <<auxVars, envVars, store, nextId, writes, loading, currentUser,
                 questions, formFieldVars, selectedDate, edits>>

\* POST /api/status: the store upserts on behalf of the token's account and
\* answers 201
postStatus(c) ==
  /\ pc[c] = "posting"
  /\ writes' = writes + 1
  /\ store' = upsert(store, nextId, writes + 1, login[c], request[c])
  /\ nextId' = IF Cardinality(store') > Cardinality(store)
               THEN nextId + 1 ELSE nextId
  /\ pc' = [pc EXCEPT ![c] = "posted"]
  /\ UNCHANGED <<auxVars, envVars, loading, currentUser, questions,
                 formFieldVars, selectedDate, error, request, checks, submits,
                 edits>>

\* POST /api/status fails: handleSubmit's catch
postStatusFailed(c) ==
  /\ pc[c] = "posting"
  /\ error' = [error EXCEPT ![c] = "Failed to save status update"]
  /\ pc' = [pc EXCEPT ![c] = "idle"]
  /\ request' = [request EXCEPT ![c] = Null]
  /\ UNCHANGED <<auxVars, envVars, store, nextId, writes, loading, currentUser,
                 questions, formFieldVars, selectedDate, checks, submits, edits>>

\* handleSubmit after the 201: refresh the status of the submitted date
handleSubmitRefresh(c) ==
  /\ pc[c] = "posted"
  /\ \E ok \in BOOLEAN :
       setFormFields(c,
         fetchStatusForDate(c, IsoDay(request[c].date), currentUser[c],
                            questions[c], ok, formFields(c)))
  /\ pc' = [pc EXCEPT ![c] = "idle"]
  /\ request' = [request EXCEPT ![c] = Null]
  /\ UNCHANGED <<auxVars, envVars, store, nextId, writes, loading, currentUser,
                 questions, selectedDate, error, checks, submits, edits>>

vars == <<formVars, auxVars>>

Init ==
  /\ FormInit
  /\ ceUser = Null
  /\ ceStatus = Null
  /\ ceResult = TRUE
  /\ cePc = "done"
  /\ serverZone = ServerUTC
  /\ findOrder = "natural"
  /\ QuestionsIdle
  /\ exportPage = Null
  /\ reportReq = Null
  /\ reportRes = Null

Next ==
  \/ \E c \in Clients : fetchData(c)
  \/ \E c \in Clients, date \in Dates : handleDateChange(c, date)
  \/ \E c \in Clients : handleEditToggle(c)
  \/ \E c \in Clients, q \in Range(realQuestions), a \in Answers :
       handleResponseChange(c, q, a)
  \/ \E c \in Clients : handleLeaveToggle(c)
  \/ \E c \in Clients, v \in Answers : handleLeaveReasonChange(c, v)
  \/ \E c \in Clients : handleSubmit(c)
  \/ \E c \in Clients : postStatus(c)
  \/ \E c \in Clients : postStatusFailed(c)
  \/ \E c \in Clients : handleSubmitRefresh(c)

Spec == Init /\ [][Next]_vars

(* ------------------- canEdit as a function of its inputs --------------- *)
\* what GET /api/status can hand the form as previousStatus.updatedBy
UpdatedBys ==
  {Null} \cup [id : UserIds \cup {Undefined}, name : {"Sam", "Max", "Ann"}]

PreviousStatuses ==
  {Null} \cup
  [id : {1}, user : {"u1"}, team : {"t1"}, date : {Today * 24},
   isLeave : BOOLEAN, leaveReason : {""}, responses : {<<>>},
   updatedBy : UpdatedBys, submittedAt : {1}]

CurrentUsers == {Null} \cup {UserDir[u] : u \in UserIds}

InitCanEdit ==
  /\ \E k \in {[now |-> Today * 24 + 12, zone |-> UTC]} :
       now = k.now /\ zone = k.zone
  /\ store = {}
  /\ nextId = 1
  /\ writes = 0
  /\ token = [c \in Clients |-> TRUE]
  /\ login = [tabA |-> "u1", tabB |-> "u1"]
  /\ teamId = [c \in Clients |-> "t1"]
  /\ loading = [c \in Clients |-> TRUE]
  /\ currentUser = [c \in Clients |-> Null]
  /\ questions = [c \in Clients |-> <<>>]
  /\ responses = [c \in Clients |-> <<>>]
  /\ previousStatus = [c \in Clients |-> Null]
  /\ selectedDate = [c \in Clients |-> IsoDay(now)]
  /\ isLeave = [c \in Clients |-> FALSE]
  /\ leaveReason = [c \in Clients |-> ""]
  /\ isEditMode = [c \in Clients |-> FALSE]
  /\ error = [c \in Clients |-> ""]
  /\ pc = [c \in Clients |-> "idle"]
  /\ request = [c \in Clients |-> Null]
  /\ checks = [c \in Clients |-> <<>>]
  /\ submits = 0
  /\ edits = 0
  /\ ceUser \in CurrentUsers
  /\ ceStatus \in PreviousStatuses
  /\ ceResult = FALSE
  /\ cePc = "call"
  /\ serverZone = ServerUTC
  /\ findOrder = "natural"
  /\ QuestionsIdle
  /\ exportPage = Null
  /\ reportReq = Null
  /\ reportRes = Null

callCanEdit ==
  /\ cePc = "call"
  /\ ceResult' = canEditOf(ceUser, ceStatus)
  /\ cePc' = "done"
  /\ UNCHANGED <<formVars, ceUser, ceStatus, serverZone, findOrder, questionVars,
                 exportPage, reportReq, reportRes>>

NextCanEdit == callCanEdit

SpecCanEdit == InitCanEdit /\ [][NextCanEdit]_vars

(* ---------------------- GET /api/reports/excel ------------------------- *)
\* the Team, Project, User and Question collections, in insertion order
TeamColl ==
  <<[id |-> "tA", name |-> "A", project |-> "p1"],
    [id |-> "tB", name |-> "B", project |-> "p2"],
    [id |-> "tC", name |-> "C", project |-> "p1"]>>

ProjectColl ==
  <<[id |-> "p1", managers |-> {"u3"}],
    [id |-> "p2", managers |-> {}]>>

UserColl ==
  <<[id |-> "u1", name |-> "Sam", role |-> "employee", teams |-> {"tA"}],
    [id |-> "u2", name |-> "Sam", role |-> "employee", teams |-> {"tA", "tB"}],
    [id |-> "u3", name |-> "Max", role |-> "manager", teams |-> {}],
    [id |-> "u4", name |-> "Ann", role |-> "admin", teams |-> {}],
    [id |-> "u5", name |-> "Eve", role |-> "manager", teams |-> {}]>>

TeamName(t) == (CHOOSE x \in Range(TeamColl) : x.id = t).name

\* the stored records a report is asked over
\* u1 answered q1 and q2 in team tA yesterday, u2 is on leave in tA today
ScenarioStore ==
  {[id |-> 1, user |-> "u1", team |-> "tA", date |-> (Today - 1) * 24,
    isLeave |-> FALSE, leaveReason |-> "",
    responses |-> <<[question |-> "q1", answer |-> "a1"],
                    [question |-> "q2", answer |-> "a2"]>>,
    updatedBy |-> "u1", submittedAt |-> 1],
   [id |-> 3, user |-> "u2", team |-> "tA", date |-> Today * 24,
    isLeave |-> TRUE, leaveReason |-> "sick", responses |-> <<>>,
    updatedBy |-> "u2", submittedAt |-> 3]}

ReportStores ==
  {{},
   ScenarioStore,
   {[id |-> 1, user |-> "u1", team |-> "tA", date |-> (Today - 1) * 24,
     isLeave |-> FALSE, leaveReason |-> "",
     responses |-> <<[question |-> "q1", answer |-> "a1"],
                     [question |-> "q2", answer |-> "a2"]>>,
     updatedBy |-> "u1", submittedAt |-> 1],
    [id |-> 2, user |-> "u2", team |-> "tB", date |-> Today * 24,
     isLeave |-> FALSE, leaveReason |-> "",
     responses |-> <<[question |-> "q1", answer |-> "b1"]>>,
     updatedBy |-> "u2", submittedAt |-> 2],
    [id |-> 3, user |-> "u2", team |-> "tA", date |-> Today * 24,
     isLeave |-> TRUE, leaveReason |-> "sick", responses |-> <<>>,
     updatedBy |-> "u2", submittedAt |-> 3]},
   {[id |-> 1, user |-> "u1", team |-> "tA", date |-> (Today - 1) * 24,
     isLeave |-> FALSE, leaveReason |-> "",
     responses |-> <<[question |-> "q1", answer |-> "a1"],
                     [question |-> "q2", answer |-> "a2"]>>,
     updatedBy |-> "u1", submittedAt |-> 1],
    [id |-> 2, user |-> "u2", team |-> "tB", date |-> Today * 24,
     isLeave |-> FALSE, leaveReason |-> "",
     responses |-> <<[question |-> "q1", answer |-> "b1"]>>,
     updatedBy |-> "u2", submittedAt |-> 2],
    [id |-> 3, user |-> "u2", team |-> "tA", date |-> Today * 24,
     isLeave |-> TRUE, leaveReason |-> "sick", responses |-> <<>>,
     updatedBy |-> "u2", submittedAt |-> 3],
    [id |-> 4, user |-> "u2", team |-> "tA", date |-> (Today - 1) * 24,
     isLeave |-> FALSE, leaveReason |-> "",
     responses |-> <<[question |-> "q3", answer |-> "c3"],
                     [question |-> "q1", answer |-> "c1"]>>,
     updatedBy |-> "u2", submittedAt |-> 4],
    [id |-> 5, user |-> "u1", team |-> "tA", date |-> Today * 24,
     isLeave |-> FALSE, leaveReason |-> "",
     responses |-> <<[question |-> "q2", answer |-> "d2"]>>,
     updatedBy |-> "u1", submittedAt |-> 5]}}

\* a collection scan returns the records in identity order
RECURSIVE ById(_)
ById(st) ==
  IF st = {} THEN <<>>
  ELSE LET r == CHOOSE x \in st : \A y \in st : x.id <= y.id
       IN  <<r>> \o ById(st \ {r})

RECURSIVE Flatten(_)
Flatten(ss) == IF ss = <<>> THEN <<>> ELSE Head(ss) \o Flatten(Tail(ss))

\* [...new Set(s)]: first occurrences, in order
RECURSIVE Unique(_)
Unique(s) ==
  IF s = <<>> THEN <<>>
  ELSE LET init == Unique(SubSeq(s, 1, Len(s) - 1))
           last == s[Len(s)]
       IN  IF last \in Range(init) THEN init ELSE Append(init, last)

\* teams.split(',').map(id => id.trim()).filter(id => id), or [team]
paramIds(list, single) ==
  LET keep(tok) == Trim(tok) # "" IN
  IF list # <<>> THEN SeqMap(Trim, SeqFilter(keep, list))
  ELSE IF single # "" THEN <<single>>
  ELSE <<>>

Forbidden == 403

\* a middleware that lets every authenticated user through
isManagerPassAll(user) == 200

\* the isManager middleware: only managers and admins get to the handler
isManager(user) ==
  IF user.role \in {"manager", "admin"} THEN 200 ELSE Forbidden

TeamsIn(ids) == LET chosen(t) == t.id \in Range(ids) IN SeqFilter(chosen, TeamColl)

idOf(x) == x.id

\* a manager who is handed whatever teams were asked for, as an admin is
accessibleTeamIdsUnscoped(user, teamIds) ==
  IF Len(teamIds) > 0 THEN teamIds ELSE SeqMap(idOf, TeamColl)

\* accessibleTeamIds of the role: an admin gets the requested teams as given,
\* or all teams; a manager the teams of the managed projects, narrowed to the
\* requested ones
accessibleTeamIdsOf(user, teamIds) ==
  IF user.role = "admin"
  THEN IF Len(teamIds) > 0 THEN teamIds ELSE SeqMap(idOf, TeamColl)
  ELSE IF user.role = "manager"
  THEN LET managed(p) == user.id \in p.managers
           projectIds == Range(SeqMap(idOf, SeqFilter(managed, ProjectColl)))
           mine(t) == /\ Len(teamIds) > 0 => t.id \in Range(teamIds)
                      /\ t.project \in projectIds
       IN  SeqMap(idOf, SeqFilter(mine, TeamColl))
  ELSE <<>>

\* a permission check that wants every requested team to be accessible
permissionAllOrNothing(user, teamIds) ==
  IF user.role = "admin" THEN 200
  ELSE IF user.role = "manager"
  THEN IF Len(teamIds) > 0
          /\ Range(teamIds) # Range(accessibleTeamIdsOf(user, teamIds))
       THEN Forbidden ELSE 200
  ELSE Forbidden

\* the outcome of "Check permissions": 200 to go on, or the 403
permission(user, teamIds) ==
  IF user.role = "admin" THEN 200
  ELSE IF user.role = "manager"
  THEN IF Len(teamIds) > 0 /\ Len(accessibleTeamIdsOf(user, teamIds)) = 0
       THEN Forbidden ELSE 200
  ELSE Forbidden

\* the offset from UTC in force in zone z at an instant
offsetAt(z, instant) == IF instant < z.change THEN z.before ELSE z.after

\* the instant a local wall-clock time names in zone z: the earlier of two
\* when the clocks went back over it, the offset before the change when the
\* clocks skipped it
localToUTC(z, local) ==
  IF local - z.before < z.change THEN local - z.before
  ELSE IF local - z.after >= z.change THEN local - z.after
  ELSE local - z.before

\* d.setDate(d.getDate() + 1): the same local wall-clock time one local
\* calendar day later
nextDay(z, d) == localToUTC(z, d + offsetAt(z, d) + 24)

\* for (d = new Date(startDate1); d <= endDate1; d.setDate(d.getDate() + 1))
RECURSIVE datesFrom(_, _, _)
datesFrom(z, d, endDate1) ==
  IF d <= endDate1 THEN <<d>> \o datesFrom(z, nextDay(z, d), endDate1)
  ELSE <<>>

\* allDates: from new Date(startDate) to new Date(endDate)
allDatesOf(z, startDate, endDate) == datesFrom(z, startDate * 24, endDate * 24)

\* StatusUpdate.find(query): date in range, user and team filters when given
statusUpdatesOf(st, q, userIds, accessibleTeamIds) ==
  LET match(r) ==
        /\ r.date >= q.startDate * 24 /\ r.date <= q.endDate * 24
        /\ Len(userIds) > 0 => r.user \in Range(userIds)
        /\ Len(accessibleTeamIds) > 0 => r.team \in Range(accessibleTeamIds)
  IN  SeqFilter(match, ById(st))

\* report teams of a users-only request taken from the records as they come
reportTeamIdsUnfiltered(statusUpdates, teamIds, userIds, accessibleTeamIds) ==
  IF Len(userIds) > 0 /\ Len(teamIds) = 0
  THEN LET teamOf(u) == u.team IN Unique(SeqMap(teamOf, statusUpdates))
  ELSE accessibleTeamIds

\* report teams that are the accessible teams whatever was requested
reportTeamIdsAccessible(statusUpdates, teamIds, userIds, accessibleTeamIds) ==
  accessibleTeamIds

\* reportTeamIds: the accessible teams, or for a users-only request the
\* accessible teams among the teams of the fetched records
reportTeamIdsOf(statusUpdates, teamIds, userIds, accessibleTeamIds) ==
  IF Len(userIds) > 0 /\ Len(teamIds) = 0
  THEN LET teamOf(u) == u.team
           userTeamIds == Unique(SeqMap(teamOf, statusUpdates))
           accessible(t) == t \in Range(accessibleTeamIds)
       IN  SeqFilter(accessible, userTeamIds)
  ELSE accessibleTeamIds

allQuestionsOf(reportTeamIds) ==
  LET wanted(qn) == qn.isCommon \/ qn.teams \cap Range(reportTeamIds) # {}
  IN  SeqFilter(wanted, questionColl)

\* report users that are every member of the report teams
reportUsersAll(userIds, reportTeamIds) ==
  LET wanted(u) == u.teams \cap Range(reportTeamIds) # {}
  IN  SeqFilter(wanted, UserColl)

\* reportUsers: the members of the report teams, narrowed to userIds when
\* users are requested
reportUsersOf(userIds, reportTeamIds) ==
  LET wanted(u) == /\ Len(userIds) > 0 => u.id \in Range(userIds)
                   /\ u.teams \cap Range(reportTeamIds) # {}
  IN  SeqFilter(wanted, UserColl)

\* a lookup keyed by team and date only
updatesByTeamDate(statusUpdates, t, u, day) ==
  LET hits == {i \in 1..Len(statusUpdates) :
                 /\ statusUpdates[i].team = t
                 /\ IsoDay(statusUpdates[i].date) = day}
  IN  IF hits = {} THEN <<>>
      ELSE statusUpdates[CHOOSE i \in hits : \A j \in hits : j <= i].responses

\* updatesByTeamUserDate[teamId][userId][dateStr]: the responses of the last
\* update with that key, [] when there is none
updatesByTeamUserDate(statusUpdates, t, u, day) ==
  LET hits == {i \in 1..Len(statusUpdates) :
                 /\ statusUpdates[i].team = t
                 /\ statusUpdates[i].user = u
                 /\ IsoDay(statusUpdates[i].date) = day}
  IN  IF hits = {} THEN <<>>
      ELSE statusUpdates[CHOOSE i \in hits : \A j \in hits : j <= i].responses

\* the answer of the first response, whatever its question
answerOfFirst(userUpdates, questionId) ==
  IF userUpdates = <<>> THEN "" ELSE userUpdates[1].answer

\* userUpdates.find(r => r.question._id === question._id), then its answer
answerOf(userUpdates, questionId) ==
  LET hits == {i \in 1..Len(userUpdates) : userUpdates[i].question = questionId}
  IN  IF hits = {} THEN ""
      ELSE userUpdates[CHOOSE i \in hits : \A j \in hits : i <= j].answer

headersOf(allDates) ==
  <<"Team #", "Resource Names", "Questions">>
  \o [i \in 1..Len(allDates) |-> ToString(IsoDay(allDates[i]))]

\* usersInTeam of a team that lists every report user
usersInTeamAll(team, reportUsers) == reportUsers

\* usersInTeam: the report users who are members of the team
usersInTeamOf(team, reportUsers) ==
  LET member(u) == team.id \in u.teams IN SeqFilter(member, reportUsers)

\* teamQuestions of a team that lists every fetched question
teamQuestionsAll(team, allQuestions) == allQuestions

\* teamQuestions: the fetched questions that are common or scoped to the team
teamQuestionsOf(team, allQuestions) ==
  LET applies(qn) == qn.isCommon \/ team.id \in qn.teams
  IN  SeqFilter(applies, allQuestions)

\* Column A: the team name on the first row of the team only
teamCell(userIndex, questionIndex, teamName) ==
  IF userIndex = 1 /\ questionIndex = 1 THEN teamName ELSE ""

\* a Column B that repeats the name on every row
userCellRepeated(questionIndex, userName) == userName

\* Column B: the user name on the first question of the user only
userCell(questionIndex, userName) ==
  IF questionIndex = 1 THEN userName ELSE ""

\* the rows reportTeams.forEach adds for the team at teamIndex
teamRows(teamIndex, reportTeams, reportUsers, allQuestions, allDates, statusUpdates) ==
  LET team == reportTeams[teamIndex]
      usersInTeam == usersInTeamOf(team, reportUsers)
      teamQuestions == teamQuestionsOf(team, allQuestions)
      cell(u, qn, d) ==
        answerOf(updatesByTeamUserDate(statusUpdates, team.id, u.id, IsoDay(d)),
                 qn.id)
      row(userIndex, questionIndex) ==
        <<teamCell(userIndex, questionIndex, team.name),
          userCell(questionIndex, usersInTeam[userIndex].name),
          teamQuestions[questionIndex].text>>
        \o [i \in 1..Len(allDates) |->
              cell(usersInTeam[userIndex], teamQuestions[questionIndex],
                   allDates[i])]
      userRows(userIndex) ==
        [questionIndex \in 1..Len(teamQuestions) |-> row(userIndex, questionIndex)]
      separator == IF teamIndex < Len(reportTeams) THEN <<<<>>>> ELSE <<>>
  IN  IF Len(usersInTeam) = 0 THEN <<>>
      ELSE Flatten([userIndex \in 1..Len(usersInTeam) |-> userRows(userIndex)])
           \o separator

\* the (team, users, questions) the rows of each team block were built from,
\* one entry per team that was not skipped
blocksOf(reportTeams, reportUsers, allQuestions) ==
  LET block(team) ==
        [team |-> team.id,
         users |-> SeqMap(idOf, usersInTeamOf(team, reportUsers)),
         questions |-> SeqMap(idOf, teamQuestionsOf(team, allQuestions))]
      kept(bl) == Len(bl.users) > 0
  IN  SeqFilter(kept, SeqMap(block, reportTeams))

\* the documents of a find without a sort, in the order ord of the database
returned(ord, docs) ==
  IF ord = "reverse" THEN [i \in 1..Len(docs) |-> docs[Len(docs) + 1 - i]]
  ELSE docs

\* the handler of GET /api/reports/excel behind auth and isManager, run in a
\* process of zone z against a database that returns finds in order ord; the
\* response carries the sheet and the handler's locals
excel(z, ord, user, q, st) ==
  LET teamIds == paramIds(q.teams, q.team)
      userIds == paramIds(q.users, q.user)
      accessibleTeamIds == accessibleTeamIdsOf(user, teamIds)
      allDates == allDatesOf(z, q.startDate, q.endDate)
      statusUpdates ==
        returned(ord, statusUpdatesOf(st, q, userIds, accessibleTeamIds))
      reportTeamIds ==
        reportTeamIdsOf(statusUpdates, teamIds, userIds, accessibleTeamIds)
      allQuestions == returned(ord, allQuestionsOf(reportTeamIds))
      reportTeams == returned(ord, TeamsIn(reportTeamIds))
      reportUsers == returned(ord, reportUsersOf(userIds, reportTeamIds))
      dataRows ==
        Flatten([teamIndex \in 1..Len(reportTeams) |->
                   teamRows(teamIndex, reportTeams, reportUsers, allQuestions,
                            allDates, statusUpdates)])
      fail(code) == [status |-> code, sheet |-> <<>>,
                     accessibleTeamIds |-> <<>>, allDates |-> <<>>,
                     statusUpdates |-> <<>>, reportTeams |-> <<>>,
                     rowsOfTeam |-> <<>>, blocks |-> <<>>]
  IN
  IF isManager(user) # 200 THEN fail(isManager(user))
  ELSE IF Len(teamIds) = 0 /\ Len(userIds) = 0 THEN fail(400)
  ELSE IF permission(user, teamIds) # 200 THEN fail(permission(user, teamIds))
  ELSE IF Len(accessibleTeamIds) = 0 /\ Len(userIds) = 0 THEN fail(404)
  ELSE [status |-> 200, sheet |-> <<headersOf(allDates)>> \o dataRows,
        accessibleTeamIds |-> accessibleTeamIds, allDates |-> allDates,
        statusUpdates |-> SeqMap(idOf, statusUpdates),
        reportTeams |-> SeqMap(idOf, reportTeams),
        rowsOfTeam |->
          [teamIndex \in 1..Len(reportTeams) |->
             teamRows(teamIndex, reportTeams, reportUsers, allQuestions,
                      allDates, statusUpdates)],
        blocks |-> blocksOf(reportTeams, reportUsers, allQuestions)]

\* the query strings a client sends: teams / users are the comma-separated
\* lists split at the commas; an absent parameter is <<>> or ""
TeamLists ==
  {<<>>, <<"", "">>, <<"tA">>, <<"tB">>, <<"tA", "tB">>, <<"tA", " ", "tC">>,
   <<"tX">>}
UserLists == {<<>>, <<"u1">>, <<"u1", "u2">>}
DateRanges == {<<Today - 1, Today>>, <<Today, Today>>, <<Today, Today - 1>>}

Queries ==
  {[teams |-> tl, team |-> t, users |-> ul, user |-> u,
    startDate |-> dr[1], endDate |-> dr[2]] :
     tl \in TeamLists, t \in {"", "tB"}, ul \in UserLists, u \in {"", "u2"},
     dr \in DateRanges}

InitReport ==
  /\ \E k \in {[now |-> Today * 24 + 12, zone |-> UTC]} :
       now = k.now /\ zone = k.zone
  /\ store \in ReportStores
  /\ nextId = Cardinality(store) + 1
  /\ writes = Cardinality(store)
  /\ token = [c \in Clients |-> TRUE]
  /\ login = [tabA |-> "u1", tabB |-> "u1"]
  /\ teamId = [c \in Clients |-> "t1"]
  /\ loading = [c \in Clients |-> TRUE]
  /\ currentUser = [c \in Clients |-> Null]
  /\ questions = [c \in Clients |-> <<>>]
  /\ responses = [c \in Clients |-> <<>>]
  /\ previousStatus = [c \in Clients |-> Null]
  /\ selectedDate = [c \in Clients |-> IsoDay(now)]
  /\ isLeave = [c \in Clients |-> FALSE]
  /\ leaveReason = [c \in Clients |-> ""]
  /\ isEditMode = [c \in Clients |-> FALSE]
  /\ error = [c \in Clients |-> ""]
  /\ pc = [c \in Clients |-> "idle"]
  /\ request = [c \in Clients |-> Null]
  /\ checks = [c \in Clients |-> <<>>]
  /\ submits = 0
  /\ edits = 0
  /\ ceUser = Null
  /\ ceStatus = Null
  /\ ceResult = TRUE
  /\ cePc = "done"
  /\ serverZone \in ServerZones
  /\ findOrder \in FindOrders
  /\ questionColl \in QuestionColls
  /\ teamsQuestions = teamsQuestionsOf(questionColl)
  /\ qreq = [r \in Connections |-> Idle]
  /\ listReq = Null
  /\ listRes = Null
  /\ exportPage = Null
  /\ reportReq = Null
  /\ reportRes = Null

getExcel(uid, q) ==
  /\ reportReq = Null
  /\ reportReq' = [user |-> UserDir[uid], query |-> q]
  /\ reportRes' = excel(serverZone, findOrder, UserDir[uid], q, store)
  /\ UNCHANGED <<formVars, ceUser, ceStatus, ceResult, cePc, serverZone,
                 findOrder, questionVars, exportPage>>

NextReport == \E uid \in UserIds, q \in Queries : getExcel(uid, q)

SpecReport == InitReport /\ [][NextReport]_vars

(* ---------------------- the question routes ---------------------------- *)
\* req.user as the auth middleware loads it: the user document, with the
\* projects the user manages
reqUser(uid) ==
  LET doc == CHOOSE u \in Range(UserColl) : u.id = uid IN
  [id |-> doc.id, role |-> doc.role, teams |-> doc.teams,
   projects |-> {p.id : p \in {x \in Range(ProjectColl) : uid \in x.managers}}]

\* .sort({ order: 1 }): ascending by order, equal orders in the order given
RECURSIVE sortByOrder(_)
sortByOrder(docs) ==
  IF docs = <<>> THEN <<>>
  ELSE LET i == CHOOSE n \in 1..Len(docs) :
                  /\ \A m \in 1..Len(docs) : docs[n].order <= docs[m].order
                  /\ \A m \in 1..(n - 1) : docs[m].order # docs[n].order
           rest == [m \in 1..(Len(docs) - 1) |->
                      IF m < i THEN docs[m] ELSE docs[m + 1]]
       IN  <<docs[i]>> \o sortByOrder(rest)

\* the query parameters of GET /api/questions; "" is an absent parameter
ListQueries == [isCommon : {"", "true", "false"}, team : {"", "tA", "tB"}]

\* GET /api/questions: the isCommon and team filters, the access filter of
\* managers and employees when no team is named, sorted by order
listQuestions(user, query) ==
  LET teamIds == {t.id : t \in {x \in Range(TeamColl) : x.project \in user.projects}}
      match(qn) ==
        /\ query.isCommon # "" => qn.isCommon = (query.isCommon = "true")
        /\ query.team # "" => query.team \in qn.teams
        /\ (user.role = "manager" /\ query.team = "")
           => qn.isCommon \/ qn.teams \cap teamIds # {}
        /\ (user.role = "employee" /\ query.team = "")
           => qn.isCommon \/ qn.teams \cap user.teams # {}
  IN  sortByOrder(SeqFilter(match, questionColl))

getQuestions(uid, query) ==
  /\ listReq = Null
  /\ listReq' = [user |-> reqUser(uid), query |-> query]
  /\ listRes' = listQuestions(reqUser(uid), query)
  /\ UNCHANGED <<formVars, ceUser, ceStatus, ceResult, cePc, serverZone,
                 findOrder, questionColl, teamsQuestions, qreq, exportPage,
                 reportReq, reportRes>>

\* the variables the question requests leave alone
notQuestionVars ==
  <<formVars, ceUser, ceStatus, ceResult, cePc, serverZone, findOrder,
    exportPage, reportReq, reportRes>>

\* identities of the questions created during a run
NewIds == <<"q4", "q5">>

\* request bodies of POST /api/questions
PostBodies ==
  {[text |-> "New?", isCommon |-> FALSE, teams |-> {"tA"}, order |-> 0],
   [text |-> "All?", isCommon |-> TRUE, teams |-> {}, order |-> 3],
   [text |-> "", isCommon |-> TRUE, teams |-> {}, order |-> 0]}

\* request bodies of PUT /api/questions/:id; isCommon and order are not sent,
\* teams and active are sent when hasTeams / hasActive
PutBodies ==
  {[text |-> "Blockers?", isCommon |-> Undefined, order |-> Undefined,
    hasTeams |-> ht, teams |-> ts, hasActive |-> ha, active |-> FALSE] :
     ht \in {TRUE}, ts \in {{}, {"tB"}, {"tA", "tC"}}, ha \in {FALSE}}
  \cup
  {[text |-> "Blockers?", isCommon |-> Undefined, order |-> Undefined,
    hasTeams |-> FALSE, teams |-> {}, hasActive |-> TRUE, active |-> FALSE],
   [text |-> "", isCommon |-> Undefined, order |-> Undefined,
    hasTeams |-> FALSE, teams |-> {}, hasActive |-> FALSE, active |-> FALSE]}

\* the users who send question requests and the ids they name
QuestionActors == {"u1", "u3", "u4", "u5"}
QuestionTargets == {"q1", "q2", "q9"}

\* the positions of NewIds no question has yet
unusedIds ==
  {n \in 1..Len(NewIds) : \A qn \in Range(questionColl) : qn.id # NewIds[n]}

\* Question.findById: the documents with that id (none or one)
findById(id) == {qn \in Range(questionColl) : qn.id = id}

done(kind, status) == [pc |-> "done", kind |-> kind, status |-> status]

respond(k, kind, status) == qreq' = [qreq EXCEPT ![k] = done(kind, status)]

\* POST /api/questions up to question.save(): the isManager gate, the text
\* check, the new document; Team.updateMany follows when teams are named
postQuestion(k, uid, body) ==
  /\ qreq[k] = Idle
  /\ unusedIds # {}
  /\ LET user == reqUser(uid)
         question ==
           [id |-> NewIds[CHOOSE n \in unusedIds : \A m \in unusedIds : n <= m],
            text |-> body.text, isCommon |-> body.isCommon,
            teams |-> body.teams, order |-> body.order, active |-> TRUE,
            createdBy |-> uid]
     IN  IF isManager(user) # 200
         THEN respond(k, "post", isManager(user)) /\ UNCHANGED questionColl
         ELSE IF body.text = ""
         THEN respond(k, "post", 400) /\ UNCHANGED questionColl
         ELSE /\ questionColl' = Append(questionColl, question)
              /\ IF body.teams # {}
                 THEN qreq' = [qreq EXCEPT ![k] =
                                 [pc |-> "addToTeams", kind |-> "post",
                                  question |-> question]]
                 ELSE respond(k, "post", 201)
  /\ UNCHANGED <<notQuestionVars, teamsQuestions, listReq, listRes>>

\* Team.updateMany({_id in teams}, {$addToSet: {questions: question._id}})
postAddToTeams(k) ==
  /\ qreq[k].pc = "addToTeams"
  /\ teamsQuestions' =
       [t \in DOMAIN teamsQuestions |->
          IF t \in qreq[k].question.teams
          THEN teamsQuestions[t] \cup {qreq[k].question.id}
          ELSE teamsQuestions[t]]
  /\ respond(k, "post", 201)
  /\ UNCHANGED <<notQuestionVars, questionColl, listReq, listRes>>

\* the step of PUT that follows the team updates still to be made
putNext(removedTeams, newTeams) ==
  IF removedTeams # {} THEN "pull" ELSE IF newTeams # {} THEN "add" ELSE "save"

\* PUT /api/questions/:id up to its first team update: the isManager gate,
\* the text check, findById, the creator-or-admin check, the field updates on
\* the loaded document and removedTeams / newTeams against its teams
putQuestion(k, uid, id, body) ==
  /\ qreq[k] = Idle
  /\ LET user == reqUser(uid)
         found == findById(id)
         loaded == CHOOSE qn \in found : TRUE
         edited ==
           [loaded EXCEPT
              !.text = IF body.text # "" THEN body.text ELSE @,
              !.isCommon = IF body.isCommon # Undefined THEN body.isCommon ELSE @,
              !.order = IF body.order # Undefined THEN body.order ELSE @,
              !.active = IF body.hasActive THEN body.active ELSE @]
         removedTeams == loaded.teams \ body.teams
         newTeams == body.teams \ loaded.teams
     IN  IF isManager(user) # 200 THEN respond(k, "put", isManager(user))
         ELSE IF body.text = "" THEN respond(k, "put", 400)
         ELSE IF found = {} THEN respond(k, "put", 404)
         ELSE IF user.role # "admin" /\ loaded.createdBy # uid
         THEN respond(k, "put", Forbidden)
         ELSE IF body.hasTeams
         THEN qreq' = [qreq EXCEPT ![k] =
                         [pc |-> putNext(removedTeams, newTeams), kind |-> "put",
                          question |-> [edited EXCEPT !.teams = body.teams],
                          loaded |-> loaded,
                          removedTeams |-> removedTeams, newTeams |-> newTeams]]
         ELSE qreq' = [qreq EXCEPT ![k] =
                         [pc |-> "save", kind |-> "put", question |-> edited,
                          loaded |-> loaded,
                          removedTeams |-> {}, newTeams |-> {}]]
  /\ UNCHANGED <<notQuestionVars, questionColl, teamsQuestions, listReq, listRes>>

\* Team.updateMany({_id in removedTeams}, {$pull: {questions: question._id}})
putPull(k) ==
  /\ qreq[k].pc = "pull"
  /\ teamsQuestions' =
       [t \in DOMAIN teamsQuestions |->
          IF t \in qreq[k].removedTeams
          THEN teamsQuestions[t] \ {qreq[k].question.id}
          ELSE teamsQuestions[t]]
  /\ qreq' = [qreq EXCEPT ![k].pc = putNext({}, qreq[k].newTeams)]
  /\ UNCHANGED <<notQuestionVars, questionColl, listReq, listRes>>

\* Team.updateMany({_id in newTeams}, {$addToSet: {questions: question._id}})
putAdd(k) ==
  /\ qreq[k].pc = "add"
  /\ teamsQuestions' =
       [t \in DOMAIN teamsQuestions |->
          IF t \in qreq[k].newTeams
          THEN teamsQuestions[t] \cup {qreq[k].question.id}
          ELSE teamsQuestions[t]]
  /\ qreq' = [qreq EXCEPT ![k].pc = "save"]
  /\ UNCHANGED <<notQuestionVars, questionColl, listReq, listRes>>

\* the stored document after a save of the edited one: the paths whose value
\* was changed on the loaded document are written, the others are left
saved(stored, loaded, edited) ==
  [f \in DOMAIN stored |-> IF edited[f] # loaded[f] THEN edited[f] ELSE stored[f]]

\* question.save(): the modified paths of the loaded document are written to
\* the stored one; a document deleted in the meantime makes save throw
putSave(k) ==
  /\ qreq[k].pc = "save"
  /\ IF findById(qreq[k].question.id) = {}
     THEN respond(k, "put", 500) /\ UNCHANGED questionColl
     ELSE /\ questionColl' =
               [n \in 1..Len(questionColl) |->
                  IF questionColl[n].id = qreq[k].question.id
                  THEN saved(questionColl[n], qreq[k].loaded, qreq[k].question)
                  ELSE questionColl[n]]
          /\ respond(k, "put", 200)
  /\ UNCHANGED <<notQuestionVars, teamsQuestions, listReq, listRes>>

\* DELETE /api/questions/:id up to Team.updateMany: the isManager gate,
\* findById and the creator-or-admin check
deleteQuestion(k, uid, id) ==
  /\ qreq[k] = Idle
  /\ LET user == reqUser(uid)
         found == findById(id)
         loaded == CHOOSE qn \in found : TRUE
     IN  IF isManager(user) # 200 THEN respond(k, "delete", isManager(user))
         ELSE IF found = {} THEN respond(k, "delete", 404)
         ELSE IF user.role # "admin" /\ loaded.createdBy # uid
         THEN respond(k, "delete", Forbidden)
         ELSE qreq' = [qreq EXCEPT ![k] =
                         [pc |-> "pullAll", kind |-> "delete",
                          question |-> loaded]]
  /\ UNCHANGED <<notQuestionVars, questionColl, teamsQuestions, listReq, listRes>>

\* Team.updateMany({questions: id}, {$pull: {questions: id}})
deletePullAll(k) ==
  /\ qreq[k].pc = "pullAll"
  /\ teamsQuestions' =
       [t \in DOMAIN teamsQuestions |-> teamsQuestions[t] \ {qreq[k].question.id}]
  /\ qreq' = [qreq EXCEPT ![k].pc = "deleteOne"]
  /\ UNCHANGED <<notQuestionVars, questionColl, listReq, listRes>>

\* question.deleteOne()
deleteOne(k) ==
  /\ qreq[k].pc = "deleteOne"
  /\ questionColl' =
       LET others(qn) == qn.id # qreq[k].question.id
       IN  SeqFilter(others, questionColl)
  /\ respond(k, "delete", 200)
  /\ UNCHANGED <<notQuestionVars, teamsQuestions, listReq, listRes>>

\* an awaited database call of a request in flight throws: catch, 500
requestFails(k) ==
  /\ qreq[k].pc \notin {"idle", "done"}
  /\ respond(k, qreq[k].kind, 500)
  /\ UNCHANGED <<notQuestionVars, questionColl, teamsQuestions, listReq, listRes>>

\* the question routes start on the three questions, with the records of
\* ScenarioStore already submitted
InitQuestions ==
  /\ \E k \in {[now |-> Today * 24 + 12, zone |-> UTC]} :
       now = k.now /\ zone = k.zone
  /\ store = ScenarioStore
  /\ nextId = Cardinality(store) + 1
  /\ writes = Cardinality(store)
  /\ token = [c \in Clients |-> TRUE]
  /\ login = [tabA |-> "u1", tabB |-> "u1"]
  /\ teamId = [c \in Clients |-> "t1"]
  /\ loading = [c \in Clients |-> TRUE]
  /\ currentUser = [c \in Clients |-> Null]
  /\ questions = [c \in Clients |-> <<>>]
  /\ responses = [c \in Clients |-> <<>>]
  /\ previousStatus = [c \in Clients |-> Null]
  /\ selectedDate = [c \in Clients |-> IsoDay(now)]
  /\ isLeave = [c \in Clients |-> FALSE]
  /\ leaveReason = [c \in Clients |-> ""]
  /\ isEditMode = [c \in Clients |-> FALSE]
  /\ error = [c \in Clients |-> ""]
  /\ pc = [c \in Clients |-> "idle"]
  /\ request = [c \in Clients |-> Null]
  /\ checks = [c \in Clients |-> <<>>]
  /\ submits = 0
  /\ edits = 0
  /\ ceUser = Null
  /\ ceStatus = Null
  /\ ceResult = TRUE
  /\ cePc = "done"
  /\ serverZone = ServerUTC
  /\ findOrder = "natural"
  /\ QuestionsIdle
  /\ exportPage = Null
  /\ reportReq = Null
  /\ reportRes = Null

NextQuestions ==
  \/ \E k \in Connections, uid \in QuestionActors, body \in PostBodies :
       postQuestion(k, uid, body)
  \/ \E k \in Connections : postAddToTeams(k)
  \/ \E k \in Connections, uid \in QuestionActors, id \in QuestionTargets,
        body \in PutBodies : putQuestion(k, uid, id, body)
  \/ \E k \in Connections : putPull(k)
  \/ \E k \in Connections : putAdd(k)
  \/ \E k \in Connections : putSave(k)
  \/ \E k \in Connections, uid \in QuestionActors, id \in QuestionTargets :
       deleteQuestion(k, uid, id)
  \/ \E k \in Connections : deletePullAll(k)
  \/ \E k \in Connections : deleteOne(k)
  \/ \E k \in Connections : requestFails(k)
  \/ \E uid \in UserIds, query \in ListQueries : getQuestions(uid, query)

SpecQuestions == InitQuestions /\ [][NextQuestions]_vars

(* ------------------- the export page's dropdown data ------------------- *)
\* what GET /api/teams can answer: teams of the collection, each at most once
FetchedTeamLists ==
  {s \in UNION {[1..n -> Range(TeamColl)] : n \in 0..Len(TeamColl)} :
     \A i, j \in DOMAIN s : s[i] = s[j] => i = j}

\* what GET /api/teams/:id/members can answer
MemberLists ==
  {<<>>, <<UserColl[1]>>, <<UserColl[2]>>, <<UserColl[1], UserColl[2]>>,
   <<UserColl[2], UserColl[1]>>}

\* what the outer catch can read from a failed GET /api/teams
TeamsErrors == {"Server error", "Failed to fetch data"}

\* the fields the page keeps of a member
teamMember(member) ==
  [id |-> member.id, name |-> member.name, role |-> member.role]

\* { ...team, members }
withMembers(team, members) ==
  [id |-> team.id, name |-> team.name, project |-> team.project,
   members |-> members]

\* allUsers.set(member._id, member): a Map keeps the position of a key it has
allUsersSet(allUsers, member) ==
  IF \E n \in 1..Len(allUsers) : allUsers[n].id = member.id
  THEN [n \in 1..Len(allUsers) |->
          IF allUsers[n].id = member.id THEN member ELSE allUsers[n]]
  ELSE Append(allUsers, member)

RECURSIVE setEach(_, _)
\* teamMembers.forEach(member => allUsers.set(member._id, member))
setEach(allUsers, teamMembers) ==
  IF teamMembers = <<>> THEN allUsers
  ELSE setEach(allUsersSet(allUsers, Head(teamMembers)), Tail(teamMembers))

\* the page when it mounts; results records the outcome of each members
\* request and teamsRes that of the teams request
ExportMount(tok) ==
  [pc |-> "mount", token |-> tok, teamsRes |-> "none", fetchedTeams |-> <<>>,
   i |-> 1, results |-> <<>>, teamsWithMembers |-> <<>>, allUsers |-> <<>>,
   teams |-> <<>>, users |-> <<>>, error |-> "", dataLoading |-> TRUE]

\* the outer catch and finally
caught(p, msg) ==
  [p EXCEPT !.pc = "done", !.error = msg, !.dataLoading = FALSE]

\* after the loop: setTeams, setUsers and finally
loopEnd(p) ==
  [p EXCEPT !.pc = "done", !.teams = p.teamsWithMembers, !.users = p.allUsers,
            !.dataLoading = FALSE]

\* the for loop: the members request of the next team, or the end
loopNext(p) ==
  IF p.i <= Len(p.fetchedTeams) THEN [p EXCEPT !.pc = "members"] ELSE loopEnd(p)

\* a failed members request that is not caught inside the loop
memberErrAborts(p) ==
  caught([p EXCEPT !.results = Append(@, [ok |-> FALSE, data |-> <<>>])],
         "Failed to fetch data")

\* catch (memberErr): the team is kept with no members and the loop goes on
memberErr(p) ==
  loopNext([p EXCEPT
              !.teamsWithMembers = Append(@, withMembers(p.fetchedTeams[p.i], <<>>)),
              !.results = Append(@, [ok |-> FALSE, data |-> <<>>]),
              !.i = @ + 1])

\* the body of the inner try after the members request answered
membersRes(p, data) ==
  LET teamMembers == SeqMap(teamMember, data) IN
  loopNext([p EXCEPT
              !.teamsWithMembers = Append(@, withMembers(p.fetchedTeams[p.i], teamMembers)),
              !.allUsers = setEach(@, teamMembers),
              !.results = Append(@, [ok |-> TRUE, data |-> data]),
              !.i = @ + 1])

notExportVars ==
  <<formVars, ceUser, ceStatus, ceResult, cePc, serverZone, findOrder,
    questionVars, reportReq, reportRes>>

\* fetchDropdownData up to the teams request
fetchDropdownData ==
  /\ exportPage.pc = "mount"
  /\ exportPage' =
       IF ~exportPage.token
       THEN caught([exportPage EXCEPT !.dataLoading = TRUE],
                   "No authentication token found")
       ELSE [exportPage EXCEPT !.dataLoading = TRUE, !.pc = "teams"]
  /\ UNCHANGED notExportVars

\* GET /api/teams answered
teamsLoaded(fetchedTeams) ==
  /\ exportPage.pc = "teams"
  /\ exportPage' = loopNext([exportPage EXCEPT !.teamsRes = "ok",
                                               !.fetchedTeams = fetchedTeams])
  /\ UNCHANGED notExportVars

\* GET /api/teams failed
teamsFailed(msg) ==
  /\ exportPage.pc = "teams"
  /\ exportPage' = caught([exportPage EXCEPT !.teamsRes = "failed"], msg)
  /\ UNCHANGED notExportVars

\* GET /api/teams/:id/members answered for the team the loop is at
membersLoaded(data) ==
  /\ exportPage.pc = "members"
  /\ exportPage' = membersRes(exportPage, data)
  /\ UNCHANGED notExportVars

\* GET /api/teams/:id/members failed for the team the loop is at
membersFailed ==
  /\ exportPage.pc = "members"
  /\ exportPage' = memberErr(exportPage)
  /\ UNCHANGED notExportVars

InitExport ==
  /\ \E k \in {[now |-> Today * 24 + 12, zone |-> UTC]} :
       now = k.now /\ zone = k.zone
  /\ store = ScenarioStore
  /\ nextId = Cardinality(store) + 1
  /\ writes = Cardinality(store)
  /\ token = [c \in Clients |-> TRUE]
  /\ login = [tabA |-> "u1", tabB |-> "u1"]
  /\ teamId = [c \in Clients |-> "t1"]
  /\ loading = [c \in Clients |-> TRUE]
  /\ currentUser = [c \in Clients |-> Null]
  /\ questions = [c \in Clients |-> <<>>]
  /\ responses = [c \in Clients |-> <<>>]
  /\ previousStatus = [c \in Clients |-> Null]
  /\ selectedDate = [c \in Clients |-> IsoDay(now)]
  /\ isLeave = [c \in Clients |-> FALSE]
  /\ leaveReason = [c \in Clients |-> ""]
  /\ isEditMode = [c \in Clients |-> FALSE]
  /\ error = [c \in Clients |-> ""]
  /\ pc = [c \in Clients |-> "idle"]
  /\ request = [c \in Clients |-> Null]
  /\ checks = [c \in Clients |-> <<>>]
  /\ submits = 0
  /\ edits = 0
  /\ ceUser = Null
  /\ ceStatus = Null
  /\ ceResult = TRUE
  /\ cePc = "done"
  /\ serverZone = ServerUTC
  /\ findOrder = "natural"
  /\ QuestionsIdle
  /\ exportPage \in {ExportMount(tok) : tok \in BOOLEAN}
  /\ reportReq = Null
  /\ reportRes = Null

NextExport ==
  \/ fetchDropdownData
  \/ \E fetchedTeams \in FetchedTeamLists : teamsLoaded(fetchedTeams)
  \/ \E msg \in TeamsErrors : teamsFailed(msg)
  \/ \E data \in MemberLists : membersLoaded(data)
  \/ membersFailed

SpecExport == InitExport /\ [][NextExport]_vars

(* ============================== claims ================================= *)
RecordsOf(user, team, day) == {r \in store : OnDay(r, user, team, day)}

\* C1: after any sequence of submissions the store holds at most one record
\* per (user, team, date); a submission never removes a record or changes its
\* key or identity, and it adds a record only for a key that had none
C1_OneRecordPerTriple ==
  /\ [](\A r1, r2 \in store :
          OnDay(r2, r1.user, r1.team, IsoDay(r1.date)) => r1 = r2)
  /\ [][(\A r \in store :
            \E r2 \in store' :
              r2.id = r.id /\ OnDay(r2, r.user, r.team, IsoDay(r.date)))
         /\
         (\A q \in store' :
            (\A p \in store : p.id # q.id)
            => RecordsOf(q.user, q.team, IsoDay(q.date)) = {})]_vars

\* a record created by the first write has been overwritten by the second
C1_Witness ==
  \E r \in store : r.id = 1 /\ r.submittedAt = 2 /\ Cardinality(store) = 1

\* C2: two submissions for the same key, each posted by a tab that had read
\* "no record exists", never leave two records for that key
C2_ConcurrentUpsertAtomic ==
  \A c1, c2 \in Clients :
    (/\ c1 # c2
     /\ request[c1] # Null /\ request[c2] # Null
     /\ previousStatus[c1] = Null /\ previousStatus[c2] = Null
     /\ request[c1].user = request[c2].user
     /\ request[c1].team = request[c2].team
     /\ request[c1].date = request[c2].date)
    => Cardinality(RecordsOf(request[c1].user, request[c1].team,
                             IsoDay(request[c1].date))) <= 1

\* both tabs read "no record", both posted, both posts were served
C2_Witness ==
  /\ pc["tabA"] = "posted" /\ pc["tabB"] = "posted"
  /\ previousStatus["tabA"] = Null /\ previousStatus["tabB"] = Null
  /\ request["tabA"].user = request["tabB"].user
  /\ request["tabA"].date = request["tabB"].date
  /\ Cardinality(RecordsOf(request["tabA"].user, request["tabA"].team,
                           IsoDay(request["tabA"].date))) = 1

\* C3 (as claimed): with a record present, canEdit is true iff the actor's id
\* is the submitter's id or the actor is a manager or an admin
C3_CanEditIffOwnerOrManager ==
  (cePc = "done" /\ ceStatus # Null /\ ceUser # Null)
  => (ceResult <=>
        \/ ceStatus.updatedBy # Null /\ ceUser.id = ceStatus.updatedBy.id
        \/ ceUser.role \in {"manager", "admin"})

\* C4: without a record canEdit is true for every actor, loaded or not
C4_CanEditWithoutRecord ==
  (cePc = "done" /\ ceStatus = Null) => ceResult = TRUE

\* canEdit has been called with no record and no current user
C4_Witness ==
  cePc = "done" /\ ceStatus = Null /\ ceUser = Null /\ ceResult = TRUE

Precedes(a, b, s) ==
  \E i, j \in 1..Len(s) : i < j /\ s[i] = a /\ s[j] = b

\* C5 (as claimed): a request is posted only after handleSubmit has passed the
\* date-window check and then the edit-eligibility check
C5_UpsertAfterDateThenCanEdit ==
  \A c \in Clients :
    pc[c] \in {"posting", "posted"} => Precedes("validateDate", "canEdit", checks[c])

\* the reference day of the date window
RefDay == IsoDay(now)

InWindow(day) == RefDay - 2 <= day /\ day <= RefDay

DateMsg == "You can only add status for today or the last two days"

\* C6 (as claimed): handleSubmit accepts the selected date iff it lies in
\* [reference day - 2, reference day]; a rejected date posts nothing
C6_DateWindow ==
  \A c \in Clients :
    /\ error[c] = DateMsg => (~InWindow(selectedDate[c]) /\ request[c] = Null)
    /\ request[c] # Null => InWindow(IsoDay(request[c].date))

ValidPayload(d) ==
  \/ d.isLeave /\ Trim(d.leaveReason) # "" /\ d.responses = <<>>
  \/ /\ ~d.isLeave
     /\ Len(d.responses) > 0
     /\ \A i \in 1..Len(d.responses) : Trim(d.responses[i].answer) # ""

LeaveMsg == "Please provide a reason for leave"
ResponseMsg == "Please provide at least one response"

AllBlank(rs) == \A i \in 1..Len(rs) : Trim(rs[i].answer) = ""

\* C7: every posted request and every stored record has one of the two valid
\* payload shapes; handleSubmit on a leave form with a blank reason, or on a
\* regular form whose answers are all blank, sets the validation error, posts
\* nothing and leaves the store unchanged
C7_OnlyValidPayloadsPosted ==
  /\ [](/\ \A c \in Clients : request[c] # Null => ValidPayload(request[c])
        /\ \A r \in store : ValidPayload(r))
  /\ [][\A c \in Clients :
          (/\ handleSubmit(c)
           /\ token[c] /\ currentUser[c] # Null /\ validateDate(selectedDate[c]))
          => /\ (isLeave[c] /\ Trim(leaveReason[c]) = "")
                => (error'[c] = LeaveMsg /\ request'[c] = Null /\ store' = store)
             /\ (~isLeave[c] /\ AllBlank(responses[c]))
                => (error'[c] = ResponseMsg /\ request'[c] = Null
                    /\ store' = store)]_vars

\* a leave form with a whitespace-only reason was submitted and refused
C7_Witness ==
  \E c \in Clients :
    /\ error[c] = LeaveMsg /\ isLeave[c] /\ leaveReason[c] = " "
    /\ request[c] = Null /\ pc[c] = "idle"

\* the teams of the projects a user manages
ManagedTeams(uid) ==
  {t.id : t \in {x \in Range(TeamColl) :
                   \E p \in Range(ProjectColl) :
                     p.id = x.project /\ uid \in p.managers}}

CanAccess(user, t) ==
  \/ user.role = "admin"
  \/ user.role = "manager" /\ t \in ManagedTeams(user.id)

RequestedTeams == Range(paramIds(reportReq.query.teams, reportReq.query.team))
RequestedUsers == Range(paramIds(reportReq.query.users, reportReq.query.user))

\* C8: a manager who names teams, none of them in a project the manager
\* manages, gets 403 and no sheet
C8_ManagerForeignTeamsForbidden ==
  (/\ reportReq # Null
   /\ reportReq.user.role = "manager"
   /\ RequestedTeams # {}
   /\ RequestedTeams \cap ManagedTeams(reportReq.user.id) = {})
  => (reportRes.status = Forbidden /\ reportRes.sheet = <<>>)

\* a manager of project p1 asked for team tB of project p2 and was refused
C8_Witness ==
  /\ reportReq # Null
  /\ reportReq.user.id = "u3"
  /\ RequestedTeams = {"tB"}
  /\ reportRes.status = Forbidden

\* C9 (as claimed): a request that names teams is refused with 403 whenever
\* the actor cannot access every one of them
C9_ForbiddenUnlessAllAccessible ==
  (/\ reportReq # Null
   /\ RequestedTeams # {}
   /\ \E t \in RequestedTeams : ~CanAccess(reportReq.user, t))
  => reportRes.status = Forbidden

\* C9 (amended): a request that names teams is refused with 403 iff the actor
\* can access none of them; a manager who can access some of them gets the
\* report over exactly the requested teams of the managed projects
C9_ForbiddenIffNoneAccessible ==
  (reportReq # Null /\ RequestedTeams # {})
  => /\ reportRes.status = Forbidden
        <=> \A t \in RequestedTeams : ~CanAccess(reportReq.user, t)
     /\ (reportRes.status # Forbidden /\ reportReq.user.role = "manager")
        => /\ reportRes.status = 200
           /\ Range(reportRes.accessibleTeamIds)
                = RequestedTeams \cap ManagedTeams(reportReq.user.id)

\* a manager asked for a managed and a foreign team and got a report over the
\* managed one
C9_Witness ==
  /\ reportReq # Null
  /\ reportReq.user.id = "u3"
  /\ RequestedTeams = {"tA", "tB"}
  /\ reportRes.status = 200
  /\ reportRes.accessibleTeamIds = <<"tA">>

Ok200 == reportReq # Null /\ reportRes.status = 200

Blocks == reportRes.blocks

BlockSize(k) == Len(Blocks[k].users) * Len(Blocks[k].questions)

RECURSIVE RowsBefore(_)
RowsBefore(k) == IF k = 1 THEN 0 ELSE RowsBefore(k - 1) + BlockSize(k - 1)

\* the rows under the header, without the empty rows between teams
DataRows ==
  LET filled(row) == row # <<>> IN SeqFilter(filled, Tail(reportRes.sheet))

\* the sheet has one row per (team block, user, question) and no other
LayoutOk == Len(DataRows) = RowsBefore(Len(Blocks) + 1)

\* the row of question j of user i of block k, and its cell in date column c
RowAt(k, i, j) ==
  DataRows[RowsBefore(k) + (i - 1) * Len(Blocks[k].questions) + j]

CellAt(k, i, j, c) == RowAt(k, i, j)[3 + c]

UsersOf(k) == 1..Len(Blocks[k].users)
QuestionsOf(k) == 1..Len(Blocks[k].questions)
DateColumns == 1..Len(reportRes.allDates)

InRange(r) ==
  /\ r.date >= reportReq.query.startDate * 24
  /\ r.date <= reportReq.query.endDate * 24

\* C11: in a report a manager obtains, every team block and every answer cell
\* comes from a team of a project the manager manages; a users-only request of
\* a manager with no accessible team fetches the users' records of any team
\* and shows none of them
C11_ManagerSeesOnlyManagedTeams ==
  (Ok200 /\ reportReq.user.role = "manager")
  => LET mine == ManagedTeams(reportReq.user.id) IN
     /\ LayoutOk
     /\ \A n \in 1..Len(DataRows) :
          DataRows[n][1] # "" => DataRows[n][1] \in {TeamName(t) : t \in mine}
     /\ \A k \in 1..Len(Blocks) :
          /\ Blocks[k].team \in mine
          /\ \A i \in UsersOf(k), j \in QuestionsOf(k), c \in DateColumns :
               CellAt(k, i, j, c) # ""
               => \E r \in store :
                    /\ r.team = Blocks[k].team
                    /\ \E n \in 1..Len(r.responses) :
                         r.responses[n].answer = CellAt(k, i, j, c)
     /\ (RequestedTeams = {} /\ reportRes.accessibleTeamIds = <<>>)
        => /\ Range(reportRes.statusUpdates)
                = {r.id : r \in {x \in store :
                                   x.user \in RequestedUsers /\ InRange(x)}}
           /\ Len(reportRes.sheet) = 1

\* a manager without projects asked for users u1 and u2 only: records of teams
\* tA and tB were fetched and the sheet has the header row alone
C11_Witness ==
  /\ Ok200
  /\ reportReq.user.id = "u5"
  /\ RequestedTeams = {} /\ RequestedUsers = {"u1", "u2"}
  /\ {1, 2} \subseteq Range(reportRes.statusUpdates)
  /\ Len(reportRes.sheet) = 1

\* the days startDate .. endDate name, both ends included
DaysOfRange ==
  LET q == reportReq.query IN
  [i \in 1..(IF q.endDate >= q.startDate THEN q.endDate - q.startDate + 1
             ELSE 0) |-> q.startDate + i - 1]

\* C12 (as claimed): the header row is the three fixed columns followed by
\* every calendar date of [startDate, endDate], each once, in ascending order
C12_HeaderIsDateRange ==
  Ok200
  => reportRes.sheet[1]
       = <<"Team #", "Resource Names", "Questions">>
         \o [i \in 1..Len(DaysOfRange) |-> ToString(DaysOfRange[i])]

\* C13 (as claimed): a request whose startDate is later than its endDate is
\* refused and gets no sheet
C13_StartAfterEndRejected ==
  (reportReq # Null /\ reportReq.query.startDate > reportReq.query.endDate)
  => (reportRes.status # 200 /\ reportRes.sheet = <<>>)

\* the teams of the Team collection among a set of identifiers
Existing(ids) == {t.id : t \in Range(TeamColl)} \cap ids

\* the teams the actor may report on
AccessibleTo(user) ==
  IF user.role = "admin" THEN {t.id : t \in Range(TeamColl)}
  ELSE IF user.role = "manager" THEN ManagedTeams(user.id)
  ELSE {}

\* the teams of the records a users-only request fetches
TeamsOfFetched ==
  {r.team : r \in {x \in store :
                     /\ x.user \in RequestedUsers
                     /\ InRange(x)
                     /\ AccessibleTo(reportReq.user) # {}
                        => x.team \in AccessibleTo(reportReq.user)}}

\* C14 (as claimed): the report teams are the requested teams when teams are
\* requested, and for a users-only request the teams of the fetched records
\* that are accessible
C14_ReportTeamSet ==
  Ok200
  => Range(reportRes.reportTeams)
       = IF RequestedTeams # {} THEN Existing(RequestedTeams)
         ELSE TeamsOfFetched \cap AccessibleTo(reportReq.user)

\* C14 (amended): the report teams are the requested teams the actor can
\* access when teams are requested, and for a users-only request the teams of
\* the fetched records that are accessible
C14_ReportTeamSetAccessible ==
  Ok200
  => Range(reportRes.reportTeams)
       = IF RequestedTeams # {}
         THEN Existing(RequestedTeams) \cap AccessibleTo(reportReq.user)
         ELSE TeamsOfFetched \cap AccessibleTo(reportReq.user)

\* an admin asked for user u2 only over the two days: the report teams are the
\* teams tA and tB of u2's records, not team tC
C14_Witness ==
  /\ Ok200
  /\ reportReq.user.role = "admin"
  /\ RequestedTeams = {} /\ RequestedUsers = {"u2"}
  /\ Cardinality(store) = 5
  /\ Range(reportRes.reportTeams) = {"tA", "tB"}

UserName(u) == (CHOOSE x \in Range(UserColl) : x.id = u).name

\* the members of team t, narrowed to the requested users when users are named
ExpectedUsers(t) ==
  {u.id : u \in {x \in Range(UserColl) :
                   /\ t \in x.teams
                   /\ RequestedUsers # {} => x.id \in RequestedUsers}}

\* C15: the users listed under each report team are exactly the requested
\* users who are members of the team, or every member of the team when no
\* user is requested; each is listed once, under its own name, and a team
\* has a block exactly when it has such a user
C15_UsersOfTeamBlock ==
  Ok200
  => /\ LayoutOk
     /\ Len(Blocks) = Cardinality({Blocks[k].team : k \in 1..Len(Blocks)})
     /\ {Blocks[k].team : k \in 1..Len(Blocks)}
          = {t \in Range(reportRes.reportTeams) : ExpectedUsers(t) # {}}
     /\ \A k \in 1..Len(Blocks) :
          /\ Range(Blocks[k].users) = ExpectedUsers(Blocks[k].team)
          /\ Len(Blocks[k].users) = Cardinality(ExpectedUsers(Blocks[k].team))
          /\ \A i \in UsersOf(k) :
               QuestionsOf(k) # {}
               => RowAt(k, i, 1)[2] = UserName(Blocks[k].users[i])

\* teams tA and tB were reported with users u1 and u2 requested: u1 and u2
\* are under tA, u2 alone is under tB
C15_Witness ==
  /\ Ok200
  /\ RequestedUsers = {"u1", "u2"}
  /\ Len(Blocks) = 2
  /\ Blocks[1].team = "tA" /\ Blocks[1].users = <<"u1", "u2">>
  /\ Blocks[2].team = "tB" /\ Blocks[2].users = <<"u2">>

QuestionOf(id) == CHOOSE x \in Range(questionColl) : x.id = id

\* the questions that apply to team t
ExpectedQuestions(t) ==
  {qn.id : qn \in {x \in Range(questionColl) : x.isCommon \/ t \in x.teams}}

\* C16: under each report team the question rows of every user are exactly
\* the common questions and the questions scoped to that team, each once,
\* with the question's text in the question column
C16_QuestionsOfTeamBlock ==
  Ok200
  => /\ LayoutOk
     /\ \A k \in 1..Len(Blocks) :
          /\ Range(Blocks[k].questions) = ExpectedQuestions(Blocks[k].team)
          /\ Len(Blocks[k].questions)
               = Cardinality(ExpectedQuestions(Blocks[k].team))
          /\ \A i \in UsersOf(k), j \in QuestionsOf(k) :
               RowAt(k, i, j)[3] = QuestionOf(Blocks[k].questions[j]).text

\* teams tA and tB were reported together: q3, scoped to tB, is fetched for
\* the report and is a row of tB but not of tA
C16_Witness ==
  /\ Ok200
  /\ Len(Blocks) = 2
  /\ Blocks[1].team = "tA" /\ Blocks[1].questions = <<"q1", "q2">>
  /\ Blocks[2].team = "tB" /\ Blocks[2].questions = <<"q1", "q3">>

\* position of a question in the Question collection
InsertionIndex(id) == CHOOSE n \in 1..Len(questionColl) : questionColl[n].id = id

\* C17 (as claimed): within a user's block the question rows ascend by the
\* display order of the question, ties in insertion order
C17_QuestionsInDisplayOrder ==
  Ok200
  => \A k \in 1..Len(Blocks) :
       \A j1, j2 \in QuestionsOf(k) :
         j1 < j2
         => LET a == QuestionOf(Blocks[k].questions[j1])
                b == QuestionOf(Blocks[k].questions[j2])
            IN  \/ a.order < b.order
                \/ a.order = b.order /\ InsertionIndex(a.id) < InsertionIndex(b.id)

\* C18: the team-name cell is filled on the first row of a team block and
\* blank on its other rows; the user-name cell is filled on the first question
\* row of each user and blank on the user's other rows
C18_NameCellsOnFirstRows ==
  Ok200
  => /\ LayoutOk
     /\ \A k \in 1..Len(Blocks) :
          \A i \in UsersOf(k), j \in QuestionsOf(k) :
            /\ RowAt(k, i, j)[1]
                 = (IF i = 1 /\ j = 1 THEN TeamName(Blocks[k].team) ELSE "")
            /\ RowAt(k, i, j)[2]
                 = (IF j = 1 THEN UserName(Blocks[k].users[i]) ELSE "")
            /\ TeamName(Blocks[k].team) # "" /\ UserName(Blocks[k].users[i]) # ""

\* a block of two users with two questions each: four rows, the team name on
\* the first, a user name on the first and the third
C18_Witness ==
  /\ Ok200
  /\ Len(Blocks) >= 1
  /\ Blocks[1].users = <<"u1", "u2">> /\ Len(Blocks[1].questions) = 2
  /\ RowAt(1, 1, 1)[1] = "A" /\ RowAt(1, 1, 2)[1] = ""
  /\ RowAt(1, 2, 1)[1] = "" /\ RowAt(1, 2, 1)[2] = "Sam"
  /\ RowAt(1, 2, 2)[2] = ""

\* the answer the record of (team, user, day) gives to a question, "" when
\* there is no such record or it has no response to the question
ExpectedAnswer(team, user, day, question) ==
  LET rs == RecordsOf(user, team, day) IN
  IF rs = {} THEN ""
  ELSE LET r == CHOOSE x \in rs : TRUE
           hits == {n \in 1..Len(r.responses) : r.responses[n].question = question}
       IN  IF hits = {} THEN ""
           ELSE r.responses[CHOOSE n \in hits : \A m \in hits : n <= m].answer

\* C19: the cell of row (team, user, question) in a date column holds the
\* answer the record of (team, user, date) gives to that question, and is
\* blank when there is no such record or no such response
C19_CellIsAnswerOfRecord ==
  Ok200
  => /\ LayoutOk
     /\ \A k \in 1..Len(Blocks) :
          \A i \in UsersOf(k), j \in QuestionsOf(k), c \in DateColumns :
            CellAt(k, i, j, c)
              = ExpectedAnswer(Blocks[k].team, Blocks[k].users[i],
                               IsoDay(reportRes.allDates[c]),
                               Blocks[k].questions[j])

\* team tA over two days with all five records: u1 answered q1 on the first
\* day and only q2 on the second; u2 answered q1 on the first day
C19_Witness ==
  /\ Ok200
  /\ Cardinality(store) = 5
  /\ Len(reportRes.allDates) = 2
  /\ Len(Blocks) >= 1 /\ Blocks[1].team = "tA"
  /\ Blocks[1].users = <<"u1", "u2">> /\ Blocks[1].questions = <<"q1", "q2">>
  /\ CellAt(1, 1, 1, 1) = "a1" /\ CellAt(1, 1, 1, 2) = ""
  /\ CellAt(1, 1, 2, 2) = "d2" /\ CellAt(1, 2, 1, 1) = "c1"

\* C20: a leave record of (team, user, date) leaves every question cell of
\* that user under that team blank in that date's column, and the rows of the
\* sheet are one per (team, member, applicable question) whatever records,
\* leave or not, the store holds
C20_LeaveDayCellsBlank ==
  Ok200
  => /\ LayoutOk
     /\ \A k \in 1..Len(Blocks) :
          BlockSize(k) = Cardinality(ExpectedUsers(Blocks[k].team))
                         * Cardinality(ExpectedQuestions(Blocks[k].team))
     /\ \A r \in store :
          r.isLeave
          => \A k \in 1..Len(Blocks) :
               \A i \in UsersOf(k), j \in QuestionsOf(k), c \in DateColumns :
                 (/\ Blocks[k].team = r.team
                  /\ Blocks[k].users[i] = r.user
                  /\ IsoDay(reportRes.allDates[c]) = IsoDay(r.date))
                 => CellAt(k, i, j, c) = ""

\* u2 is on leave in team tA on day Today while u1 answered q2 that day: the
\* column of Today is blank in both rows of u2 and the block has four rows
C20_Witness ==
  /\ Ok200
  /\ \E r \in store : r.isLeave /\ r.user = "u2" /\ r.team = "tA"
                      /\ r.date = Today * 24
  /\ \E c \in DateColumns :
       /\ reportRes.allDates[c] = Today * 24
       /\ Len(Blocks) >= 1 /\ Blocks[1].team = "tA"
       /\ Blocks[1].users = <<"u1", "u2">> /\ Len(Blocks[1].questions) = 2
       /\ CellAt(1, 1, 2, c) = "d2"
       /\ CellAt(1, 2, 1, c) = "" /\ CellAt(1, 2, 2, c) = ""
  /\ BlockSize(1) = 4

\* the rows of the sheet under the header, separators included
SheetRows == Tail(reportRes.sheet)

\* C21 (as claimed): a separator row stands between two team blocks and
\* nowhere else: never first, never last, never next to another separator,
\* and every team block but the first follows one
C21_OneSeparatorBetweenBlocks ==
  Ok200
  => \A n \in 1..Len(SheetRows) :
       /\ SheetRows[n] = <<>>
          => /\ n > 1 /\ n < Len(SheetRows)
             /\ SheetRows[n - 1] # <<>>
             /\ SheetRows[n + 1] # <<>>
       /\ (n > 1 /\ SheetRows[n] # <<>> /\ SheetRows[n][1] # "")
          => SheetRows[n - 1] = <<>>

\* C22 (as claimed): a report team without users, or without a question that
\* applies to it, adds no row to the sheet, not even a separator
C22_EmptyTeamAddsNoRow ==
  Ok200
  => \A n \in 1..Len(reportRes.reportTeams) :
       (\/ ExpectedUsers(reportRes.reportTeams[n]) = {}
        \/ ExpectedQuestions(reportRes.reportTeams[n]) = {})
       => reportRes.rowsOfTeam[n] = <<>>

\* users x questions of the first n report teams
RECURSIVE RowsOfTeams(_)
RowsOfTeams(n) ==
  IF n = 0 THEN 0
  ELSE RowsOfTeams(n - 1)
       + Cardinality(ExpectedUsers(reportRes.reportTeams[n]))
         * Cardinality(ExpectedQuestions(reportRes.reportTeams[n]))

\* teams A = [u1, u2] and B = [u2], common question q1 and A-only question
\* q2, two days; u1 answered q1 and q2 on the first day, u2 is on leave in A
\* on the second day, nobody has data in B
Scenario ==
  /\ reportReq # Null
  /\ reportReq.user.role = "admin"
  /\ RequestedTeams = {"tA", "tB"} /\ RequestedUsers = {}
  /\ reportReq.query.startDate = Today - 1 /\ reportReq.query.endDate = Today
  /\ serverZone = ServerUTC /\ findOrder = "natural"
  /\ questionColl = QuestionCollNoRisks
  /\ Cardinality(store) = 2

ScenarioSheet ==
  <<<<"Team #", "Resource Names", "Questions", ToString(Today - 1),
      ToString(Today)>>,
    <<"A", "Sam", "Done?", "a1", "">>,
    <<"", "", "Blockers?", "a2", "">>,
    <<"", "Sam", "Done?", "", "">>,
    <<"", "", "Blockers?", "", "">>,
    <<>>,
    <<"B", "Sam", "Done?", "", "">>>>

\* C23: the data rows are one per (report team, user of the team, question of
\* the team), team by team, user by user, question by question; in the
\* scenario the sheet is four rows for A, a separator and one blank row for B
C23_RowsAreTeamUserQuestion ==
  Ok200
  => /\ Len(DataRows) = RowsOfTeams(Len(reportRes.reportTeams))
     /\ LayoutOk
     /\ \A k1, k2 \in 1..Len(Blocks) :
          k1 < k2
          => \E n1, n2 \in 1..Len(reportRes.reportTeams) :
               /\ n1 < n2
               /\ reportRes.reportTeams[n1] = Blocks[k1].team
               /\ reportRes.reportTeams[n2] = Blocks[k2].team
     /\ \A k \in 1..Len(Blocks) :
          \A i \in UsersOf(k), j \in QuestionsOf(k) :
            /\ i = 1 /\ j = 1 => RowAt(k, i, j)[1] = TeamName(Blocks[k].team)
            /\ j = 1 => RowAt(k, i, j)[2] = UserName(Blocks[k].users[i])
            /\ RowAt(k, i, j)[3] = QuestionOf(Blocks[k].questions[j]).text
     /\ Scenario => reportRes.sheet = ScenarioSheet

\* the scenario was requested and answered with its seven rows
C23_Witness ==
  Scenario /\ Ok200 /\ Len(reportRes.sheet) = 7 /\ Len(DataRows) = 5

\* C24 (as claimed): the sheet of a request does not depend on the order the
\* database returns the teams, users, questions and records in
C24_SheetIndependentOfFindOrder ==
  Ok200
  => \A ord \in FindOrders :
       excel(serverZone, ord, reportReq.user, reportReq.query, store).sheet
         = reportRes.sheet

(* ------------------------ the question routes -------------------------- *)
QuestionIds == {qn.id : qn \in Range(questionColl)}

\* C25 (as claimed): every question a stored record refers to still exists
C25_ReferencedQuestionsExist ==
  \A r \in store :
    \A n \in 1..Len(r.responses) : r.responses[n].question \in QuestionIds

\* C26 (as claimed): the question list the status form loads, GET
\* /api/questions without parameters, holds active questions only
C26_FormListsActiveQuestionsOnly ==
  (listReq # Null /\ listReq.query = [isCommon |-> "", team |-> ""])
  => \A n \in 1..Len(listRes) : listRes[n].active

\* the teams a manager or an employee has access to
OwnTeams(user) ==
  IF user.role = "manager" THEN ManagedTeams(user.id) ELSE user.teams

\* C29 (as claimed): whatever the query parameters, a manager or an employee
\* is listed only common questions and questions scoped to a team of theirs
C29_ListingFilteredByAccess ==
  (listReq # Null /\ listReq.user.role \in {"manager", "employee"})
  => \A n \in 1..Len(listRes) :
       listRes[n].isCommon \/ listRes[n].teams \cap OwnTeams(listReq.user) # {}

\* C30 (as claimed): when no question request is in flight, a team lists a
\* question iff the question exists and its team scope contains the team
C30_TeamListsMatchQuestionScopes ==
  (\A k \in Connections : qreq[k].pc \in {"idle", "done"})
  => \A t \in DOMAIN teamsQuestions :
       teamsQuestions[t]
         = {qn.id : qn \in {x \in Range(questionColl) : t \in x.teams}}

(* ------------------------------ C27 ------------------------------------ *)
\* the form holds a record for its selected date and edit mode is off
RecordAndNoEdit(c) == previousStatus[c] # Null /\ ~isEditMode[c]

\* one of the three input handlers of client c runs
InputHandler(c) ==
  \/ \E q \in Range(realQuestions), a \in Answers : handleResponseChange(c, q, a)
  \/ handleLeaveToggle(c)
  \/ \E v \in Answers : handleLeaveReasonChange(c, v)

C28_MemberFailureSkipsOnlyThatTeam ==
  LET p == exportPage IN
  (p # Null /\ p.pc = "done" /\ p.teamsRes = "ok")
  => /\ p.error = ""
     /\ ~p.dataLoading
     /\ Len(p.results) = Len(p.fetchedTeams)
     /\ Len(p.teams) = Len(p.fetchedTeams)
     /\ \A n \in 1..Len(p.teams) :
          /\ p.teams[n].id = p.fetchedTeams[n].id
          /\ p.teams[n].members =
               IF p.results[n].ok THEN SeqMap(teamMember, p.results[n].data)
               ELSE <<>>
     /\ Range(p.users) =
          UNION {Range(SeqMap(teamMember, p.results[n].data)) :
                   n \in {m \in 1..Len(p.results) : p.results[m].ok}}
     /\ \A i, j \in 1..Len(p.users) : p.users[i].id = p.users[j].id => i = j

\* the load ended with the first team's members missing and the members of a
\* later team loaded
C28_Witness ==
  LET p == exportPage IN
  /\ p # Null /\ p.pc = "done" /\ p.teamsRes = "ok"
  /\ Len(p.results) = 3
  /\ ~p.results[1].ok
  /\ p.results[2].ok /\ p.results[2].data # <<>>
  /\ p.results[3].ok /\ p.results[3].data # <<>>
  /\ Len(p.users) = 2
  /\ p.error = ""

====
